---- MODULE Spec2Model ----
(***************************************************************************)
(* Model of csv_api_client.py: the pipeline                                *)
(*   load_settings -> validate_settings -> load_tokens -> authenticate     *)
(*   -> get_rota_data -> process_data -> write_csv                         *)
(* with the files on disk (settings.json, tokens.json), the remote Public  *)
(* API (its answers to the landing probe, the login and the read request)  *)
(* and the process's streams and exit code.                                *)
(*                                                                         *)
(* Python dictionaries are functions whose DOMAIN is the set of keys.      *)
(* JSON null / Python None is the value None; str() is the operator Str.   *)
(* The verbose progress lines on the error stream are not modelled.        *)
(***************************************************************************)
EXTENDS Integers, Sequences, FiniteSets, TLC

VARIABLES
    pc,              \* the function the run is in, or "done" / "exit"
    settings_file,   \* settings.json on disk: [state, data]
    settings,        \* the settings dictionary in memory
    iso_dates,       \* --iso_dates
    csv_path,        \* --csv given (TRUE) or omitted (FALSE)
    tokens_file,     \* tokens.json on disk: [state, data]
    tokens_file0,    \* tokens.json as it was when the run started
    tokens_data,     \* the token mapping in memory
    tokens_writes,   \* number of times tokens.json was written in this run
    service,         \* person_rota list the remote service holds per department
    dept_i,          \* authenticate: index of the department being handled
    token,           \* authenticate: local variable token
    valid_token,     \* authenticate: local variable valid_token
    department_urls, \* authenticate: urls built so far
    requests,        \* every HTTP request sent so far, with its outcome
    url_i,           \* get_rota_data: index of the url being fetched
    all_rota_data,   \* get_rota_data / process_data: combined records
    row_i,           \* process_data: index of the record being processed
    processed_data,  \* process_data: output rows built so far
    csv_out,         \* what was written to the CSV file or stdout
    stderr,          \* the message error_quit (or a traceback) wrote
    exit_kind,       \* "running", "ok", "error_quit" or "traceback"
    exit_code        \* -1 while running, then the process's exit code

vars == <<pc, settings_file, settings, iso_dates, csv_path, tokens_file,
          tokens_file0, tokens_data, tokens_writes, service, dept_i, token,
          valid_token, department_urls, requests, url_i, all_rota_data,
          row_i, processed_data, csv_out, stderr, exit_kind, exit_code>>

----------------------------------------------------------------------------
(* Bounds *)

MaxDepts == 2      \* departments in settings.json
MaxRecords == 2    \* records the remote service holds for a department

----------------------------------------------------------------------------
(* Values *)

None == "<null>"

EmptyMap == [k \in {} |-> None]

\* str(value): None prints as the four letters None, a string is itself
Str(value) == IF value = None THEN "None" ELSE value

\* the tuple systems of validate_settings
systems == {"clwrota", "medirota"}

IsoDate == "2022-06-20"
IsoStamp == "2022-06-20T14:05:00"

\* datetime.fromisoformat(v): fields of the parsed datetime, or the exception
fromisoformat(v) ==
    CASE v = None -> [exc |-> "TypeError"]
      [] v = IsoDate -> [exc |-> "none", d |-> "20", m |-> "06", Y |-> "2022",
                         H |-> "00", M |-> "00", S |-> "00"]
      [] v = IsoStamp -> [exc |-> "none", d |-> "20", m |-> "06", Y |-> "2022",
                          H |-> "14", M |-> "05", S |-> "00"]
      [] OTHER -> [exc |-> "ValueError"]

\* strftime('%d/%m/%Y')
strftime_date(dt) == dt.d \o "/" \o dt.m \o "/" \o dt.Y

\* strftime('%d/%m/%Y %H:%M:%S')
strftime_stamp(dt) ==
    dt.d \o "/" \o dt.m \o "/" \o dt.Y \o " " \o dt.H \o ":" \o dt.M \o ":" \o dt.S

----------------------------------------------------------------------------
(* The inputs of a run: settings.json, tokens.json, the command line and   *)
(* the data the remote service holds.                                      *)

Fields == {"name", "date", "modified"}

\* the values the remote service sends for each field
FieldValues == [name |-> {None, "", "Jane"},
                date |-> {IsoDate, ""},
                modified |-> {IsoStamp}]

RecordsOver(K) ==
    {r \in [K -> {None, "", "Jane", IsoDate, IsoStamp}] :
        \A k \in K : r[k] \in FieldValues[k]}

\* person_rota records: any subset of name and date, or a full record
RotaRecords ==
    UNION {RecordsOver(K) : K \in SUBSET {"name", "date"}}
    \cup {r \in RecordsOver(Fields) : r["name"] = "Jane" /\ r["date"] = IsoDate}

SeqsUpTo(S, n) == UNION {[1..m -> S] : m \in 0..n}

\* output column of a source key
Column(key) ==
    CASE key = "name" -> "Name"
      [] key = "date" -> "Date"
      [] key = "modified" -> "Modified"

\* return_data_set as the ordered list of its (key, value) items
ReturnDataSets ==
    {<<[key |-> k, value |-> Column(k)]>> : k \in Fields}
    \cup {<<[key |-> p[1], value |-> Column(p[1])], [key |-> p[2], value |-> Column(p[2])]>> :
            p \in {q \in {"name", "date"} \X Fields : q[1] # q[2]}}

DefaultReturnDataSet ==
    <<[key |-> "name", value |-> "Name"], [key |-> "date", value |-> "Date"]>>

AdditionalFields == {EmptyMap, [name |-> "Agency"]}

\* settings.json contents with both optional keys present
SettingsData(deps, rds, req, add, range) ==
    [departments |-> deps, day_range |-> range, return_data_set |-> rds,
     required_fields |-> req, additional_fields |-> add]

Department(i, sys) == [shortname |-> i, system |-> sys]

\* department lists: shortnames 1..n, each under a system of its own
DepartmentLists(sysset) ==
    UNION {{[i \in 1..n |-> Department(i, f[i])] : f \in [1..n -> sysset]} :
            n \in 0..MaxDepts}

\* tokens.json for a department list: a shortname -> token dictionary per
\* system (the document the client itself writes always holds both systems);
\* a department's entry may be missing, null or a cached token
TokenDocs(deps) ==
    {[sys \in systems |->
        [sn \in {deps[i].shortname :
                    i \in {j \in 1..Len(deps) : deps[j].system = sys /\ e[j] # "missing"}}
            |-> e[sn]]] :
     e \in [1..Len(deps) -> {"missing", None, "old"}]}

TokensFiles(deps) ==
    {[state |-> "absent", data |-> EmptyMap]}
    \cup {[state |-> "present", data |-> doc] : doc \in TokenDocs(deps)}

RecA == [name |-> "Jane", date |-> IsoDate]
RecB == [date |-> IsoDate]
RecC == [name |-> "", date |-> IsoDate]

\* what the service holds per department while the departments vary
ServiceLists == {<<RecA>>, <<RecB, RecC>>}

Running ==
    /\ pc = "load_settings"
    /\ tokens_writes = 0
    /\ dept_i = 1
    /\ token = None
    /\ valid_token = FALSE
    /\ department_urls = <<>>
    /\ requests = <<>>
    /\ url_i = 1
    /\ all_rota_data = <<>>
    /\ row_i = 1
    /\ processed_data = <<>>
    /\ csv_out = [dest |-> "none", header |-> <<>>, rows |-> <<>>]
    /\ stderr = <<>>
    /\ exit_kind = "running"
    /\ exit_code = -1
    /\ settings = EmptyMap
    /\ tokens_data = EmptyMap
    /\ tokens_file0 = tokens_file

\* runs that differ in departments, cached tokens and output destination
InitAuth ==
    /\ \E deps \in DepartmentLists(systems) :
        /\ settings_file = [state |-> "ok",
                            data |-> SettingsData(deps, DefaultReturnDataSet,
                                                  {"name"}, EmptyMap, "1")]
        /\ tokens_file \in TokensFiles(deps)
        /\ service \in [1..Len(deps) -> ServiceLists]
    /\ iso_dates = FALSE
    /\ csv_path \in BOOLEAN
    /\ Running

\* runs that differ in the field settings and the records fetched
InitData ==
    /\ \E rds \in ReturnDataSets, req \in {{}, {"name"}}, add \in AdditionalFields :
        settings_file = [state |-> "ok",
                         data |-> SettingsData(<<Department(1, "clwrota")>>,
                                               rds, req, add, "7")]
    /\ tokens_file = [state |-> "absent", data |-> EmptyMap]
    /\ service \in [{1} -> SeqsUpTo(RotaRecords, MaxRecords)]
    /\ iso_dates \in BOOLEAN
    /\ csv_path = FALSE
    /\ Running

\* settings.json without one of its optional keys
Without(data, key) == [k \in DOMAIN data \ {key} |-> data[k]]

\* runs that differ in how well-formed the two files are
InitConfig ==
    /\ \E deps \in DepartmentLists(systems \cup {"other"}) :
        /\ Len(deps) = 1
        /\ \E range \in {"1", "abc"}, add \in AdditionalFields, st \in {"ok", "missing", "malformed"} :
            \E full \in {SettingsData(deps, <<[key |-> "date", value |-> "Date"]>>,
                                      {"date"}, add, range)} :
                /\ settings_file \in
                      {[state |-> st, data |-> d] :
                          d \in {full, Without(full, "required_fields"),
                                 Without(full, "additional_fields")}}
        /\ tokens_file \in TokensFiles(<<Department(1, "clwrota")>>)
                             \cup {[state |-> "malformed", data |-> EmptyMap]}
    /\ service = [i \in {1} |-> <<RecA>>]
    /\ iso_dates = TRUE
    /\ csv_path = TRUE
    /\ Running

Init == InitAuth \/ InitData \/ InitConfig

----------------------------------------------------------------------------
(* Ways a run ends *)

\* error_quit(message): the message on the error stream, then sys.exit(1)
error_quit(message) ==
    /\ pc' = "exit"
    /\ stderr' = message
    /\ exit_kind' = "error_quit"
    /\ exit_code' = 1

\* an exception no handler catches: the interpreter prints a traceback
\* and the process ends with status 1
Uncaught(exception) ==
    /\ pc' = "exit"
    /\ stderr' = <<"Traceback (most recent call last):", exception>>
    /\ exit_kind' = "traceback"
    /\ exit_code' = 1

\* control moves on to the function named
Goto(label) ==
    /\ pc' = label
    /\ UNCHANGED <<stderr, exit_kind, exit_code>>

inputs == <<settings_file, iso_dates, csv_path, service, tokens_file0>>
token_state == <<tokens_file, tokens_data, tokens_writes>>
auth_locals == <<dept_i, token, valid_token, department_urls>>
data_state == <<url_i, all_rota_data, row_i, processed_data, csv_out>>

----------------------------------------------------------------------------
(* load_settings *)

LoadSettings ==
    /\ pc = "load_settings"
    /\ CASE settings_file.state = "missing" ->
              /\ error_quit(<<"FileNotFoundError">>)
              /\ UNCHANGED settings
         [] settings_file.state = "malformed" ->
              /\ error_quit(<<"JSONDecodeError">>)
              /\ UNCHANGED settings
         [] OTHER ->
              /\ settings' = settings_file.data
              /\ Goto("validate_settings")
    /\ UNCHANGED <<inputs, token_state, auth_locals, requests, data_state>>

----------------------------------------------------------------------------
(* validate_settings *)

\* if key not in settings: settings[key] = default
WithDefault(s, key, default) ==
    IF key \in DOMAIN s THEN s ELSE (key :> default) @@ s

\* int(text): the integer, or ValueError
int(text) ==
    CASE text = "1" -> [exc |-> "none", value |-> 1]
      [] text = "7" -> [exc |-> "none", value |-> 7]
      [] OTHER -> [exc |-> "ValueError", value |-> 0]

\* the keys of return_data_set
ReturnKeys(rds) == {rds[n].key : n \in 1..Len(rds)}

ValidateSettings ==
    /\ pc = "validate_settings"
    /\ LET s1 == WithDefault(settings, "additional_fields", EmptyMap)
           s2 == WithDefault(s1, "required_fields", {})
       IN /\ settings' = s2
          /\ CASE \E i \in 1..Len(s2.departments) : s2.departments[i].system \notin systems ->
                    error_quit(<<"System must be one of: ", systems>>)
               [] (\A i \in 1..Len(s2.departments) : s2.departments[i].system \in systems)
                  /\ ~(DOMAIN s2.additional_fields \subseteq ReturnKeys(s2.return_data_set)) ->
                    error_quit(<<"All additional_fields keys must be in return_data_set">>)
               [] (\A i \in 1..Len(s2.departments) : s2.departments[i].system \in systems)
                  /\ DOMAIN s2.additional_fields \subseteq ReturnKeys(s2.return_data_set)
                  /\ int(s2.day_range).exc = "ValueError" ->
                    error_quit(<<"Ensure day_range is an integer">>)
               [] OTHER -> Goto("load_tokens")
    /\ UNCHANGED <<inputs, token_state, auth_locals, requests, data_state>>

----------------------------------------------------------------------------
(* load_tokens *)

\* the dictionary built when tokens.json does not exist
ConstructTokens(deps) ==
    [system \in systems |->
        [sn \in {deps[i].shortname : i \in {j \in 1..Len(deps) : deps[j].system = system}}
            |-> None]]

\* the head of the loop over departments, or what follows the loop
AuthLoop(i, urls) ==
    IF i <= Len(settings.departments) THEN "authenticate"
    ELSE IF Len(urls) > 0 THEN "get_rota_data"
    ELSE "write_csv"

LoadTokens ==
    /\ pc = "load_tokens"
    /\ CASE tokens_file.state = "malformed" ->
              /\ error_quit(<<"JSONDecodeError">>)
              /\ UNCHANGED tokens_data
         [] tokens_file.state = "absent" ->
              /\ tokens_data' = ConstructTokens(settings.departments)
              /\ Goto(AuthLoop(1, <<>>))
         [] OTHER ->
              /\ tokens_data' = tokens_file.data
              /\ Goto(AuthLoop(1, <<>>))
    /\ UNCHANGED <<inputs, settings, tokens_file, tokens_writes, auth_locals,
                   requests, data_state>>

----------------------------------------------------------------------------
(* authenticate: one department per pass of the loop *)

\* status codes the service answers a request with
StatusCodes == {200, 401, 420}

\* tokens a login hands out
FreshTokens == {"new"}

\* a request to the department's Public API and what came of it
Request(kind, department, tok, status, exc) ==
    [kind |-> kind, shortname |-> department.shortname, system |-> department.system,
     token |-> tok, status |-> status, exc |-> exc]

\* variant: only 200 is accepted, 420 (near expiry) is not
ValidStatusOnly200(status) == status = 200

\* variant: every status below 500 is accepted
ValidStatusBelow500(status) == status < 500

\* response.status_code in (200, 420)
ValidStatus(status) == status \in {200, 420}

\* look the token up and probe the landing page with it
Authenticate ==
    /\ pc = "authenticate"
    /\ LET department == settings.departments[dept_i]
           shortname == department.shortname
           system == department.system
       IN IF shortname \notin DOMAIN tokens_data[system]
          THEN \* KeyError
               /\ valid_token' = FALSE
               /\ Goto("login")
               /\ UNCHANGED <<token, requests>>
          ELSE /\ token' = tokens_data[system][shortname]
               /\ \/ \E status \in StatusCodes :
                       /\ requests' = Append(requests,
                              Request("landing", department, Str(token'), status, "none"))
                       /\ valid_token' = ValidStatus(status)
                       /\ Goto(IF valid_token' THEN "append" ELSE "login")
                  \/ /\ requests' = Append(requests,
                              Request("landing", department, Str(token'), 0, "ConnectionError"))
                     /\ error_quit(<<"ConnectionError">>)
                     /\ UNCHANGED valid_token
    /\ UNCHANGED <<inputs, settings, token_state, dept_i, department_urls, data_state>>

\* variant: the system's dictionary is replaced by one holding this token only
StoreTokenAlone(data, system, shortname, tok) ==
    [data EXCEPT ![system] = (shortname :> tok)]

\* tokens_data[system][shortname] = token
StoreToken(data, system, shortname, tok) ==
    [data EXCEPT ![system] = (shortname :> tok) @@ data[system]]

\* variant: the new token is kept in memory but tokens.json is not saved
LoginWithoutSave ==
    /\ pc = "login"
    /\ LET department == settings.departments[dept_i]
       IN \/ \E tok \in FreshTokens :
               /\ requests' = Append(requests, Request("login", department, "", 200, "none"))
               /\ token' = tok
               /\ tokens_data' = StoreToken(tokens_data, department.system,
                                            department.shortname, tok)
               /\ Goto("append")
               /\ UNCHANGED <<tokens_file, tokens_writes>>
          \/ /\ requests' = Append(requests,
                     Request("login", department, "", 0, "ConnectionError"))
             /\ error_quit(<<"ConnectionError">>)
             /\ UNCHANGED <<token, token_state>>
          \/ /\ requests' = Append(requests,
                     Request("login", department, "", 401, "HTTPError"))
             /\ error_quit(<<"error.message of the response">>)
             /\ UNCHANGED <<token, token_state>>
    /\ UNCHANGED <<inputs, settings, dept_i, valid_token, department_urls, data_state>>

\* log in, keep the new token and save tokens.json
Login ==
    /\ pc = "login"
    /\ LET department == settings.departments[dept_i]
       IN \/ \E tok \in FreshTokens :
               /\ requests' = Append(requests, Request("login", department, "", 200, "none"))
               /\ token' = tok
               /\ tokens_data' = StoreToken(tokens_data, department.system,
                                            department.shortname, tok)
               /\ tokens_file' = [state |-> "present", data |-> tokens_data']
               /\ tokens_writes' = tokens_writes + 1
               /\ Goto("append")
          \/ /\ requests' = Append(requests,
                     Request("login", department, "", 0, "ConnectionError"))
             /\ error_quit(<<"ConnectionError">>)
             /\ UNCHANGED <<token, token_state>>
          \/ /\ requests' = Append(requests,
                     Request("login", department, "", 401, "HTTPError"))
             /\ error_quit(<<"error.message of the response">>)
             /\ UNCHANGED <<token, token_state>>
    /\ UNCHANGED <<inputs, settings, dept_i, valid_token, department_urls, data_state>>

\* department_urls.append(base_url + token)
AppendUrl ==
    /\ pc = "append"
    /\ IF token = None
       THEN \* str + None
            /\ Uncaught("TypeError")
            /\ UNCHANGED <<dept_i, department_urls>>
       ELSE /\ department_urls' = Append(department_urls,
                    [shortname |-> settings.departments[dept_i].shortname,
                     system |-> settings.departments[dept_i].system,
                     token |-> token])
            /\ dept_i' = dept_i + 1
            /\ Goto(AuthLoop(dept_i', department_urls'))
    /\ UNCHANGED <<inputs, settings, token_state, token, valid_token, requests, data_state>>

----------------------------------------------------------------------------
(* get_rota_data: one url per pass of the loop *)

\* the index of the department a url was built for
DeptIndex(url) ==
    CHOOSE i \in 1..Len(settings.departments) :
        /\ settings.departments[i].shortname = url.shortname
        /\ settings.departments[i].system = url.system

\* variant: the department's records are put in front
extend_front(list, department_rota_data) == department_rota_data \o list

\* all_rota_data.extend(department_rota_data)
extend(list, department_rota_data) == list \o department_rota_data

\* the head of the loop over department_urls, or what follows the loop
UrlLoop(i, urls, data) ==
    IF i <= Len(urls) THEN "get_rota_data"
    ELSE IF Len(data) > 0 THEN "process_data"
    ELSE "write_csv"

GetRotaData ==
    /\ pc = "get_rota_data"
    /\ LET department_url == department_urls[url_i]
           \* days from today: today .. today + day_range - 1
           from_date == 0
           to_date == from_date + (int(settings.day_range).value - 1)
           sent(status, exc) ==
               Append(requests,
                      [kind |-> "person_rota", shortname |-> department_url.shortname,
                       system |-> department_url.system, token |-> department_url.token,
                       status |-> status, exc |-> exc,
                       from_date |-> from_date, to_date |-> to_date])
       IN \/ /\ requests' = sent(200, "none")
             /\ all_rota_data' = extend(all_rota_data, service[DeptIndex(department_url)])
             /\ url_i' = url_i + 1
             /\ Goto(UrlLoop(url_i', department_urls, all_rota_data'))
          \/ /\ requests' = sent(0, "ConnectionError")
             /\ error_quit(<<"ConnectionError">>)
             /\ UNCHANGED <<url_i, all_rota_data>>
          \/ /\ requests' = sent(401, "HTTPError")
             /\ error_quit(<<"error.message of the response">>)
             /\ UNCHANGED <<url_i, all_rota_data>>
    /\ UNCHANGED <<inputs, settings, token_state, auth_locals, row_i, processed_data, csv_out>>

----------------------------------------------------------------------------
(* process_data: one record per pass of the loop *)

\* row.update(additional_fields)
update(row, additional_fields) == additional_fields @@ row

\* variant: every value of the row is tested, required or not
include_row_every_key(row, required_fields) ==
    \A key \in DOMAIN row : Str(row[key]) # ""

\* all([str(value) for key, value in row.items() if key in required_fields])
include_row(row, required_fields) ==
    \A key \in DOMAIN row \cap required_fields : Str(row[key]) # ""

\* the loop over return_data_set from its n-th item of return_data_set on: the row and the
\* item once the loop is over, or the exception that ended it
RECURSIVE BuildItem(_, _, _, _, _)
BuildItem(row, item, return_data_set, n, iso) ==
    IF n > Len(return_data_set)
    THEN [exc |-> "none", key |-> "", row |-> row, item |-> item]
    ELSE LET key == return_data_set[n].key
             value == return_data_set[n].value
             reformat == ~iso /\ key \in {"date", "modified"}
         IN IF reformat /\ key \notin DOMAIN row
            THEN \* row[key] outside the try block
                 [exc |-> "KeyError", key |-> key, row |-> row, item |-> item]
            ELSE IF reformat /\ fromisoformat(row[key]).exc # "none"
            THEN [exc |-> fromisoformat(row[key]).exc, key |-> key,
                  row |-> row, item |-> item]
            ELSE LET row2 == IF reformat
                             THEN [row EXCEPT ![key] =
                                     IF key = "date"
                                     THEN strftime_date(fromisoformat(row[key]))
                                     ELSE strftime_stamp(fromisoformat(row[key]))]
                             ELSE row
                 IN IF key \notin DOMAIN row2
                    THEN \* except KeyError
                         [exc |-> "error_quit", key |-> key, row |-> row2, item |-> item]
                    ELSE BuildItem(row2, (value :> row2[key]) @@ item,
                                   return_data_set, n + 1, iso)

\* variant: the loop stops one record early
RowLoopShort(i, data) == IF i < Len(data) THEN "process_data" ELSE "write_csv"

\* the head of the loop over all_rota_data, or what follows the loop
RowLoop(i, data) == IF i <= Len(data) THEN "process_data" ELSE "write_csv"

ProcessData ==
    /\ pc = "process_data"
    /\ LET row == update(all_rota_data[row_i], settings.additional_fields)
           built == BuildItem(row, EmptyMap, settings.return_data_set, 1, iso_dates)
       IN IF ~include_row(row, settings.required_fields)
          THEN /\ all_rota_data' = [all_rota_data EXCEPT ![row_i] = row]
               /\ row_i' = row_i + 1
               /\ Goto(RowLoop(row_i', all_rota_data))
               /\ UNCHANGED processed_data
          ELSE /\ all_rota_data' = [all_rota_data EXCEPT ![row_i] = built.row]
               /\ CASE built.exc = "none" ->
                         /\ processed_data' = Append(processed_data, built.item)
                         /\ row_i' = row_i + 1
                         /\ Goto(RowLoop(row_i', all_rota_data))
                    [] built.exc = "error_quit" ->
                         /\ error_quit(<<"Unknown key in return_data_set: ", built.key>>)
                         /\ UNCHANGED <<row_i, processed_data>>
                    [] OTHER ->
                         /\ Uncaught(built.exc)
                         /\ UNCHANGED <<row_i, processed_data>>
    /\ UNCHANGED <<inputs, settings, token_state, auth_locals, requests, url_i, csv_out>>

----------------------------------------------------------------------------
(* write_csv *)

\* return_data_set.values()
column_headers(return_data_set) ==
    [n \in 1..Len(return_data_set) |-> return_data_set[n].value]

\* csv writes None as the empty string
CsvCell(value) == IF value = None THEN "" ELSE value

\* DictWriter.writerow: the row's cells in the order of fieldnames
writerow(row, fieldnames) ==
    [n \in 1..Len(fieldnames) |-> CsvCell(row[fieldnames[n]])]

WriteCsv ==
    /\ pc = "write_csv"
    /\ LET fieldnames == column_headers(settings.return_data_set)
       IN \/ /\ csv_out' = [dest |-> IF csv_path THEN "file" ELSE "stdout",
                            header |-> fieldnames,
                            rows |-> [n \in 1..Len(processed_data) |->
                                        writerow(processed_data[n], fieldnames)]]
             /\ pc' = "done"
             /\ exit_kind' = "ok"
             /\ exit_code' = 0
             /\ UNCHANGED stderr
          \/ \* open() fails: the directory of --csv cannot be written
             /\ csv_path
             /\ Uncaught("OSError")
             /\ UNCHANGED csv_out
    /\ UNCHANGED <<inputs, settings, token_state, auth_locals, requests, url_i,
                   all_rota_data, row_i, processed_data>>

----------------------------------------------------------------------------

Next ==
    \/ LoadSettings
    \/ ValidateSettings
    \/ LoadTokens
    \/ Authenticate
    \/ Login
    \/ AppendUrl
    \/ GetRotaData
    \/ ProcessData
    \/ WriteCsv

Spec == Init /\ [][Next]_vars

----------------------------------------------------------------------------
(* Vocabulary of the properties *)

\* the departments of settings.json
Deps == settings_file.data.departments

SameDept(r, d) == r.shortname = d.shortname /\ r.system = d.system

\* positions in the request log of the requests of one kind to department d
RequestsTo(kind, d) ==
    {n \in DOMAIN requests : requests[n].kind = kind /\ SameDept(requests[n], d)}

\* the login requests to department d that the service answered with a token
LoginsOk(d) == {n \in RequestsTo("login", d) : requests[n].exc = "none"}

\* the token mapping the run started from
Loaded ==
    IF tokens_file0.state = "present" THEN tokens_file0.data
    ELSE [system \in systems |->
            [sn \in {Deps[i].shortname : i \in {j \in DOMAIN Deps : Deps[j].system = system}}
                |-> None]]

HasEntry(data, d) == d.shortname \in DOMAIN data[d.system]

Entry(data, d) == data[d.system][d.shortname]

\* the row of process_data's current pass after the additional-fields merge
MergedRow == settings.additional_fields @@ all_rota_data[row_i]

----------------------------------------------------------------------------
(* C1 *)

\* C1: in process_data, a record that after the additional-fields merge
\* lacks a field named in required_fields, or holds the empty string for
\* it, produces no output row.
C1_RequiredFieldGatesRow ==
    [][(/\ pc = "process_data"
        /\ \E key \in settings.required_fields :
              key \notin DOMAIN MergedRow \/ MergedRow[key] = "")
       => processed_data' = processed_data]_vars

----------------------------------------------------------------------------
(* C2 *)

\* C2: a department whose landing probe returned 200 or 420 gets no login
\* request, its entry in the in-memory token mapping and in tokens.json is
\* the one the run started with, and while no login request has been sent
\* tokens.json has not been written at all.
C2_ValidTokenKept ==
    /\ \A n \in DOMAIN requests :
          (/\ requests[n].kind = "landing"
           /\ requests[n].exc = "none"
           /\ requests[n].status \in {200, 420})
          => /\ RequestsTo("login", requests[n]) = {}
             /\ Entry(tokens_data, requests[n]) = Entry(Loaded, requests[n])
             /\ tokens_file.state = "present" =>
                    Entry(tokens_file.data, requests[n]) = Entry(Loaded, requests[n])
    /\ (\A n \in DOMAIN requests : requests[n].kind # "login")
       => tokens_writes = 0 /\ tokens_file = tokens_file0

\* a finished run in which one department's cached token was accepted on a
\* 420 answer while another department had to log in
C2_Witness ==
    /\ pc = "done"
    /\ tokens_writes = 1
    /\ \E n \in DOMAIN requests :
          /\ requests[n].kind = "landing"
          /\ requests[n].status = 420
          /\ requests[n].token = "old"

----------------------------------------------------------------------------
(* C3 *)

\* C3: when tokens.json does not exist, the token mapping holds a null
\* token for every configured department under its system, and every
\* department whose pass of the loop got beyond the probe was sent a login
\* request, whatever the probe was answered.
C3_AbsentFileLogsIn ==
    (tokens_file0.state = "absent" /\ pc \in {"authenticate", "login", "append",
                                               "get_rota_data", "process_data",
                                               "write_csv", "done"})
    => /\ \A i \in DOMAIN Deps :
             /\ HasEntry(tokens_data, Deps[i])
             /\ RequestsTo("login", Deps[i]) = {} => Entry(tokens_data, Deps[i]) = None
       /\ \A i \in DOMAIN Deps :
             (i < dept_i \/ (i = dept_i /\ pc = "append"))
             => RequestsTo("login", Deps[i]) # {}

----------------------------------------------------------------------------
(* C4 *)

\* the request the current step sends, if it sends one
Sent == requests'[Len(requests')]

----------------------------------------------------------------------------
(* C5 *)

\* the records the service holds for departments 1..n, in that order
RECURSIVE ServiceRecords(_)
ServiceRecords(n) == IF n = 0 THEN <<>> ELSE ServiceRecords(n - 1) \o service[n]

\* C5: with an empty required_fields every record handled so far has
\* yielded an output row, and a run that wrote the CSV wrote one data row
\* per fetched record, the n-th row holding the n-th record's fields (the
\* additional fields merged in) for every column that is not reformatted.
C5_EmptyRequiredKeepsAll ==
    ("required_fields" \in DOMAIN settings /\ settings.required_fields = {})
    => /\ pc \in {"process_data", "write_csv", "done"} =>
             Len(processed_data) = row_i - 1
       /\ pc = "done" =>
             /\ Len(csv_out.rows) = Len(ServiceRecords(Len(Deps)))
             /\ \A n \in DOMAIN csv_out.rows :
                  \A c \in DOMAIN settings.return_data_set :
                     LET key == settings.return_data_set[c].key
                         source == settings.additional_fields @@ ServiceRecords(Len(Deps))[n]
                     IN (iso_dates \/ key = "name") =>
                            csv_out.rows[n][c] =
                                (IF source[key] = None THEN "" ELSE source[key])

\* a finished run with an empty required_fields whose two records include
\* one without a name and one with an empty or null name
C5_Witness ==
    /\ pc = "done"
    /\ settings.required_fields = {}
    /\ Len(csv_out.rows) = 2
    /\ \E n \in DOMAIN all_rota_data : "name" \notin DOMAIN all_rota_data[n]
    /\ \E n \in DOMAIN all_rota_data :
          "name" \in DOMAIN all_rota_data[n] /\ all_rota_data[n]["name"] \in {"", None}

----------------------------------------------------------------------------
(* C6 *)

\* the keys of return_data_set the merged row lacks
MissingKeys == ReturnKeys(settings.return_data_set) \ DOMAIN MergedRow

\* every date and timestamp of the merged row that is to be reformatted parses
DatesParse ==
    \A key \in ReturnKeys(settings.return_data_set) \cap DOMAIN MergedRow :
        (~iso_dates /\ key \in {"date", "modified"})
        => MergedRow[key] \in {IsoDate, IsoStamp}

\* C6: a kept record that lacks a source key of return_data_set ends the
\* run through error_quit: the message names a missing key, the exit code
\* is 1 and nothing is written as CSV.
C6_MissingKeyErrorQuit ==
    [][(/\ pc = "process_data"
        /\ include_row(MergedRow, settings.required_fields)
        /\ MissingKeys # {}
        /\ DatesParse)
       => /\ exit_kind' = "error_quit"
          /\ exit_code' = 1
          /\ \E key \in MissingKeys :
                stderr' = <<"Unknown key in return_data_set: ", key>>
          /\ csv_out'.dest = "none"]_vars

----------------------------------------------------------------------------
(* C7 *)

\* C7 as stated: tokens.json is written at most once in a run.
C7_WrittenAtMostOnce == tokens_writes <= 1

\* C7 amended: tokens.json is written once for every login the service
\* answered with a token, a department is sent at most one login request,
\* and so the file is written at most once per configured department.
C7_WrittenOncePerLogin ==
    /\ tokens_writes = Cardinality({n \in DOMAIN requests :
                                       requests[n].kind = "login" /\ requests[n].exc = "none"})
    /\ \A i \in DOMAIN Deps : Cardinality(RequestsTo("login", Deps[i])) <= 1
    /\ tokens_writes <= Len(Deps)

\* a finished run in which two departments logged in
C7_Witness == pc = "done" /\ tokens_writes = 2

----------------------------------------------------------------------------
(* C8 *)

----------------------------------------------------------------------------
(* C9 *)

\* the read requests sent so far, in the order sent
ReadRequests == SelectSeq(requests, LAMBDA r : r.kind = "person_rota")

\* the token authenticate ended with for department d
FinalToken(d) == IF LoginsOk(d) # {} THEN "new" ELSE Entry(Loaded, d)

\* C9: read requests are sent only once every department is authenticated;
\* the n-th read request goes to the n-th department of the settings with
\* the token authenticate ended with for it; a run that left get_rota_data
\* normally sent one read request per department, and before process_data
\* touches them the combined records are the departments' lists
\* concatenated in settings order.
C9_OneReadPerDepartmentInOrder ==
    /\ Len(ReadRequests) > 0 =>
          /\ dept_i = Len(Deps) + 1
          /\ Len(department_urls) = Len(Deps)
          /\ \A n \in DOMAIN requests :
                requests[n].kind # "person_rota" =>
                    \A m \in DOMAIN requests : requests[m].kind = "person_rota" => n < m
    /\ Len(ReadRequests) <= Len(Deps)
    /\ \A n \in DOMAIN ReadRequests :
          /\ SameDept(ReadRequests[n], Deps[n])
          /\ ReadRequests[n].token = FinalToken(Deps[n])
    /\ pc = "get_rota_data" =>
          /\ Len(ReadRequests) = url_i - 1
          /\ all_rota_data = ServiceRecords(url_i - 1)
    /\ (pc \in {"process_data", "write_csv", "done"} /\ Len(Deps) > 0) =>
          /\ Len(ReadRequests) = Len(Deps)
          /\ \A n \in DOMAIN ReadRequests : ReadRequests[n].exc = "none"
          /\ Len(all_rota_data) = Len(ServiceRecords(Len(Deps)))
          /\ (pc = "process_data" /\ row_i = 1) =>
                all_rota_data = ServiceRecords(Len(Deps))

\* all records of two departments fetched, the first with its cached token
\* and the second with the token of a fresh login
C9_Witness ==
    /\ pc = "process_data"
    /\ row_i = 1
    /\ Len(Deps) = 2
    /\ Len(all_rota_data) = 3
    /\ ReadRequests[1].token = "old"
    /\ ReadRequests[2].token = "new"
    /\ service[1] # service[2]

----------------------------------------------------------------------------
(* C10 *)

\* C10: something is written to the CSV file or to stdout only by a run
\* that went through every stage: every department authenticated, every
\* url fetched and every record transformed; a run that ends with a fatal
\* error has written nothing there.
C10_NoPartialOutput ==
    /\ csv_out.dest # "none" =>
          /\ pc = "done"
          /\ exit_code = 0
          /\ dept_i = Len(Deps) + 1
          /\ Len(department_urls) = Len(Deps)
          /\ Len(ReadRequests) = Len(Deps)
          /\ row_i = Len(all_rota_data) + 1
          /\ Len(all_rota_data) = Len(ServiceRecords(Len(Deps)))
    /\ exit_code = 1 => csv_out = [dest |-> "none", header |-> <<>>, rows |-> <<>>]

\* a run that had built an output row when a later record ended it with a
\* fatal error
C10_Witness ==
    /\ pc = "exit"
    /\ exit_code = 1
    /\ Len(processed_data) >= 1
    /\ row_i = 2
    /\ csv_out.dest = "none"

====
